---- MODULE Spec2Model ----
(***************************************************************************)
(* A model of the NAND-gate network of src/examples/nand.c: the gate       *)
(* records, the operations that wire them (nand_new, nand_delete,          *)
(* nand_connect_nand, nand_connect_signal, nand_disconnect_input) and the  *)
(* evaluator (nand_evaluate: topo_sort followed by evaluate_sorted).       *)
(*                                                                         *)
(* A gate pointer is a handle in 1..MaxGates, NULL is 0 and the address of *)
(* a caller-owned bool is a negative number, so that the pointer           *)
(* comparisons of the code are comparisons of numbers.  The heap is the    *)
(* function nand from the allocated handles to their records; inputs are   *)
(* indexed from 0 as in the code and a darray or a stack is a sequence     *)
(* whose element i of the code is element i + 1.                           *)
(***************************************************************************)
EXTENDS Integers, Sequences, FiniteSets, TLC

\* ------------------------------------------------------------ bounds
MaxGates == 2

MaxArity == 2

MaxOps == 5

MaxReq == 2

MaxGarbage == 1

\* ------------------------------------------------- program constants
NULL == 0

EMPTY_INPUT == "EMPTY_INPUT"

BOOLEAN_SIGNAL_INPUT == "BOOLEAN_SIGNAL_INPUT"

NAND_GATE_INPUT == "NAND_GATE_INPUT"

VISITED == "VISITED"

NOT_VISITED == "NOT_VISITED"

CURRENTLY_PROCESSING == "CURRENTLY_PROCESSING"

EINVAL == "EINVAL"

ENOMEM == "ENOMEM"

ECANCELED == "ECANCELED"

\* errno before any call has set it.
ENONE == "0"

\* The addresses a nand_t* can take.
Handles == 1..MaxGates

\* The addresses of the caller's bool variables (bool const *s).
Signals == {-1, -2}

VARIABLES
  nand,     \* the heap: allocated handle -> nand_t record
  sigval,   \* the caller's bools: signal address -> BOOLEAN
  errno,    \* the C errno
  last,     \* the last call: its name, arguments, return value, output array
  pre,      \* the heap as it was when the last call was made
  prev,     \* the nand_evaluate call made right before the last call, when
            \* the last call is a nand_evaluate of the same gates
  stale,    \* the pointers the caller has passed to nand_delete
  nops      \* the number of calls made so far

vars == <<nand, sigval, errno, last, pre, prev, stale, nops>>

\* ------------------------------------------------- darray.h / stack.h
darray_size(d) == Len(d)

darray_get(d, i) == d[i + 1]

darray_back(d) == d[Len(d)]

darray_pop_back(d) == SubSeq(d, 1, Len(d) - 1)

darray_push_back(d, x) == Append(d, x)

darray_swap_elements(d, i, j) ==
  [d EXCEPT ![i + 1] = d[j + 1], ![j + 1] = d[i + 1]]

stack_reverse(s) == [i \in 1..Len(s) |-> s[Len(s) + 1 - i]]

\* --------------------------------------------------------- the records
in_info(p, t, i) == [ptr |-> p, type |-> t, ind |-> i]

out_info(g, i) == [gate |-> g, ind |-> i]

EmptyIn == in_info(NULL, EMPTY_INPUT, 0)

\* ------------------------------------------------------ disconnection
\* The swap of nand_disconnect_nand: the record at out_ind trades places
\* with the last one and the moved record's input learns its new index.
SwapToBack(N, g_out, out_ind) ==
  LET sz       == darray_size(N[g_out].outputs)
      swapped  == darray_swap_elements(N[g_out].outputs, out_ind, sz - 1)
      moved    == darray_get(swapped, out_ind)
      N1       == [N EXCEPT ![g_out].outputs = swapped]
  IN  [N1 EXCEPT ![moved.gate].inputs[moved.ind].ind = out_ind]

\* nand_disconnect_nand that forgets to empty the input of g_in.
nand_disconnect_nand_KeepsInput(N, g_out, g_in, in_ind) ==
  LET out_ind  == N[g_in].inputs[in_ind].ind
      g_out_sz == darray_size(N[g_out].outputs)
      N1 == IF out_ind + 1 # g_out_sz THEN SwapToBack(N, g_out, out_ind) ELSE N
  IN  [N1 EXCEPT ![g_out].outputs = darray_pop_back(@)]

\* nand_disconnect_nand popping the last record without the swap.
nand_disconnect_nand_PopsLast(N, g_out, g_in, in_ind) ==
  LET N2 == [N EXCEPT ![g_out].outputs = darray_pop_back(@)]
  IN  [N2 EXCEPT ![g_in].inputs[in_ind] = EmptyIn]

nand_disconnect_nand(N, g_out, g_in, in_ind) ==
  LET out_ind  == N[g_in].inputs[in_ind].ind
      g_out_sz == darray_size(N[g_out].outputs)
      N1 == IF out_ind + 1 # g_out_sz THEN SwapToBack(N, g_out, out_ind) ELSE N
      N2 == [N1 EXCEPT ![g_out].outputs = darray_pop_back(@)]
  IN  [N2 EXCEPT ![g_in].inputs[in_ind] = EmptyIn]

nand_disconnect_signal(N, g, k) ==
  [N EXCEPT ![g].inputs[k] = EmptyIn]

nand_disconnect_input(N, g, k) ==
  LET N1 == IF N[g].inputs[k].type = BOOLEAN_SIGNAL_INPUT
            THEN nand_disconnect_signal(N, g, k) ELSE N
  IN  IF N1[g].inputs[k].type = NAND_GATE_INPUT
      THEN nand_disconnect_nand(N1, N1[g].inputs[k].ptr, g, k)
      ELSE N1

\* ------------------------------------------------------------ queries
nand_fan_out(N, g) == darray_size(N[g].outputs)

nand_input(N, g, k) ==
  IF N[g].inputs[k].type = EMPTY_INPUT THEN NULL ELSE N[g].inputs[k].ptr

\* ------------------------------------------------------------ the calls
\* mem: every allocation the call made found memory; fail: the number of
\* the allocation of a nand_evaluate call that did not (0: none).
Call(op, a, b, k, req, ret, out, mem) ==
  [op |-> op, a |-> a, b |-> b, k |-> k, req |-> req, ret |-> ret,
   out |-> out, mem |-> mem, fail |-> 0]

Range(s) == {s[i] : i \in 1..Len(s)}

\* No nand_evaluate call came right before.
NoCall == [call |-> Call("none", NULL, NULL, 0, << >>, 0, << >>, TRUE),
           errno |-> ENONE, sigval |-> [s \in Signals |-> FALSE]]

\* The caller makes at most MaxOps calls.
Budget == nops < MaxOps

\* What a call leaves behind besides the heap and errno.
Done(call) ==
  /\ nops' = nops + 1
  /\ last' = call
  /\ pre' = nand
  /\ prev' = IF /\ call.op = "nand_evaluate"
                /\ last.op = "nand_evaluate"
                /\ Len(call.req) = Len(last.req)
                /\ Range(call.req) = Range(last.req)
             THEN [call |-> last, errno |-> errno, sigval |-> sigval]
             ELSE NoCall

\* malloc may return any free address; the gates are interchangeable, so
\* the model hands out the lowest one.
FreeHandle == CHOOSE h \in Handles \ DOMAIN nand :
                \A h2 \in Handles \ DOMAIN nand : h <= h2

NewGate(n) ==
  [crit_path_len |-> 0,
   inputs        |-> [i \in 0..(n - 1) |-> EmptyIn],
   outputs       |-> << >>,
   input_count   |-> n,
   status        |-> NOT_VISITED,
   signal        |-> FALSE]

\* nand_new(n); mem says whether malloc and darray_new find memory.
nand_new(n, mem) ==
  /\ Budget
  /\ mem => DOMAIN nand # Handles
  /\ IF mem
     THEN LET g == FreeHandle IN
          /\ nand' = [h \in DOMAIN nand \cup {g} |->
                        IF h = g THEN NewGate(n) ELSE nand[h]]
          /\ errno' = errno
          /\ Done(Call("nand_new", n, NULL, 0, << >>, g, << >>, TRUE))
     ELSE /\ nand' = nand
          /\ errno' = ENOMEM
          /\ Done(Call("nand_new", n, NULL, 0, << >>, NULL, << >>, FALSE))
  /\ UNCHANGED <<sigval, stale>>

\* The first loop of nand_delete, from input i on.
RECURSIVE DeleteInputs(_, _, _)
DeleteInputs(N, g, i) ==
  IF i >= N[g].input_count THEN N
  ELSE DeleteInputs(IF N[g].inputs[i].type # EMPTY_INPUT
                    THEN nand_disconnect_input(N, g, i) ELSE N,
                    g, i + 1)

\* nand_delete without its second loop.
DeleteOutputs_Skipped(N, g) == N

\* The second loop of nand_delete.
RECURSIVE DeleteOutputs(_, _)
DeleteOutputs(N, g) ==
  IF darray_size(N[g].outputs) = 0 THEN N
  ELSE LET info == darray_back(N[g].outputs)
       IN  DeleteOutputs(nand_disconnect_nand(N, g, info.gate, info.ind), g)

\* free(g): the record is gone from the heap.
Free(N, g) == [h \in DOMAIN N \ {g} |-> N[h]]

nand_delete(g) ==
  /\ Budget
  /\ nand' = IF g = NULL THEN nand
             ELSE Free(DeleteOutputs(DeleteInputs(nand, g, 0), g), g)
  /\ stale' = IF g = NULL THEN stale ELSE stale \cup {g}
  /\ Done(Call("nand_delete", g, NULL, 0, << >>, 0, << >>, TRUE))
  /\ UNCHANGED <<sigval, errno>>

\* ConnectNand storing the size of the outputs as the index of the record.
ConnectNand_OffByOne(N, g_out, g_in, k) ==
  LET N1 == [N EXCEPT ![g_out].outputs =
                        darray_push_back(@, out_info(g_in, k))]
      N2 == nand_disconnect_input(N1, g_in, k)
  IN  [N2 EXCEPT ![g_in].inputs[k] =
         in_info(g_out, NAND_GATE_INPUT, darray_size(N2[g_out].outputs))]

\* ConnectNand storing the consumer where the producer belongs.
ConnectNand_WrongPtr(N, g_out, g_in, k) ==
  LET N1 == [N EXCEPT ![g_out].outputs =
                        darray_push_back(@, out_info(g_in, k))]
      N2 == nand_disconnect_input(N1, g_in, k)
  IN  [N2 EXCEPT ![g_in].inputs[k] =
         in_info(g_in, NAND_GATE_INPUT, darray_size(N2[g_out].outputs) - 1)]

\* ConnectNand overwriting the input without disconnecting what it held.
ConnectNand_NoDisconnect(N, g_out, g_in, k) ==
  LET N1 == [N EXCEPT ![g_out].outputs =
                        darray_push_back(@, out_info(g_in, k))]
  IN  [N1 EXCEPT ![g_in].inputs[k] =
         in_info(g_out, NAND_GATE_INPUT, darray_size(N1[g_out].outputs) - 1)]

\* ConnectNand without the push of the output record.
ConnectNand_NoRecord(N, g_out, g_in, k) ==
  LET N2 == nand_disconnect_input(N, g_in, k)
  IN  [N2 EXCEPT ![g_in].inputs[k] =
         in_info(g_out, NAND_GATE_INPUT, darray_size(N2[g_out].outputs) - 1)]

\* The body of nand_connect_nand once the arguments are valid, the slot
\* does not hold g_out and darray_push_back has found memory.
ConnectNand(N, g_out, g_in, k) ==
  LET N1 == [N EXCEPT ![g_out].outputs =
                        darray_push_back(@, out_info(g_in, k))]
      N2 == nand_disconnect_input(N1, g_in, k)
  IN  [N2 EXCEPT ![g_in].inputs[k] =
         in_info(g_out, NAND_GATE_INPUT, darray_size(N2[g_out].outputs) - 1)]

\* nand_connect_nand without the test before the push.
AlreadyConnected_Never(N, g_out, g_in, k) == FALSE

\* The test before the push: the input already points to g_out.
AlreadyConnected(N, g_out, g_in, k) == N[g_in].inputs[k].ptr = g_out

\* nand_connect_nand disconnecting the input before the push.
nand_connect_nand_DisconnectsFirst(g_out, g_in, k, mem) ==
  LET call(ret) ==
        Call("nand_connect_nand", g_out, g_in, k, << >>, ret, << >>, mem)
  IN
  /\ Budget
  /\ IF g_out = NULL \/ g_in = NULL \/ k >= nand[g_in].input_count
     THEN /\ mem
          /\ errno' = EINVAL
          /\ nand' = nand
          /\ Done(call(-1))
     ELSE IF AlreadyConnected(nand, g_out, g_in, k)
     THEN /\ mem
          /\ UNCHANGED <<nand, errno>>
          /\ Done(call(0))
     ELSE IF ~mem
     THEN /\ errno' = ENOMEM
          /\ nand' = nand_disconnect_input(nand, g_in, k)
          /\ Done(call(-1))
     ELSE /\ nand' = ConnectNand(nand, g_out, g_in, k)
          /\ errno' = errno
          /\ Done(call(0))
  /\ UNCHANGED <<sigval, stale>>

\* nand_connect_nand(g_out, g_in, k); mem says whether darray_push_back
\* finds memory.
nand_connect_nand(g_out, g_in, k, mem) ==
  LET call(ret) ==
        Call("nand_connect_nand", g_out, g_in, k, << >>, ret, << >>, mem)
  IN
  /\ Budget
  /\ IF g_out = NULL \/ g_in = NULL \/ k >= nand[g_in].input_count
     THEN /\ mem
          /\ errno' = EINVAL
          /\ nand' = nand
          /\ Done(call(-1))
     ELSE IF AlreadyConnected(nand, g_out, g_in, k)
     THEN /\ mem
          /\ UNCHANGED <<nand, errno>>
          /\ Done(call(0))
     ELSE IF ~mem
     THEN /\ errno' = ENOMEM
          /\ nand' = nand
          /\ Done(call(-1))
     ELSE /\ nand' = ConnectNand(nand, g_out, g_in, k)
          /\ errno' = errno
          /\ Done(call(0))
  /\ UNCHANGED <<sigval, stale>>

\* nand_connect_signal without the test of s.
nand_connect_signal_NoNullTest(s, g, k) ==
  LET call(ret) ==
        Call("nand_connect_signal", s, g, k, << >>, ret, << >>, TRUE)
  IN
  /\ Budget
  /\ IF g = NULL \/ k >= nand[g].input_count
     THEN /\ errno' = EINVAL
          /\ nand' = nand
          /\ Done(call(-1))
     ELSE /\ nand' = [nand_disconnect_input(nand, g, k) EXCEPT
                        ![g].inputs[k] = in_info(s, BOOLEAN_SIGNAL_INPUT, 0)]
          /\ errno' = errno
          /\ Done(call(0))
  /\ UNCHANGED <<sigval, stale>>

nand_connect_signal(s, g, k) ==
  LET call(ret) ==
        Call("nand_connect_signal", s, g, k, << >>, ret, << >>, TRUE)
  IN
  /\ Budget
  /\ IF s = NULL \/ g = NULL \/ k >= nand[g].input_count
     THEN /\ errno' = EINVAL
          /\ nand' = nand
          /\ Done(call(-1))
     ELSE /\ nand' = [nand_disconnect_input(nand, g, k) EXCEPT
                        ![g].inputs[k] = in_info(s, BOOLEAN_SIGNAL_INPUT, 0)]
          /\ errno' = errno
          /\ Done(call(0))
  /\ UNCHANGED <<sigval, stale>>

\* A call of nand_disconnect_input(g, k) on a gate and one of its inputs.
disconnect(g, k) ==
  /\ Budget
  /\ k < nand[g].input_count
  /\ nand' = nand_disconnect_input(nand, g, k)
  /\ Done(Call("nand_disconnect_input", g, NULL, k, << >>, 0, << >>, TRUE))
  /\ UNCHANGED <<sigval, errno, stale>>

\* The pointers a caller holds: the gates it has made and not deleted.
Live == DOMAIN nand

\* What a word of a freed record may hold when it is read as a size.
Garbage == (-1)..MaxGarbage

\* nand_fan_out returning -1 for NULL without setting errno.
fan_out_NoErrno(g, junk) ==
  LET call(ret) == Call("nand_fan_out", g, NULL, 0, << >>, ret, << >>, TRUE)
  IN
  /\ Budget
  /\ IF g = NULL
     THEN /\ junk = 0
          /\ errno' = errno
          /\ Done(call(-1))
     ELSE IF g \in DOMAIN nand
     THEN /\ junk = 0
          /\ errno' = errno
          /\ Done(call(nand_fan_out(nand, g)))
     ELSE /\ errno' = errno
          /\ Done(call(junk))
  /\ UNCHANGED <<nand, sigval, stale>>

\* A call of nand_fan_out(g).  g may be a pointer the caller has deleted:
\* the test for NULL lets it through and the size is read from the record
\* it points to, which is the gate malloc has put there since, or freed
\* memory holding junk.
fan_out(g, junk) ==
  LET call(ret) == Call("nand_fan_out", g, NULL, 0, << >>, ret, << >>, TRUE)
  IN
  /\ Budget
  /\ IF g = NULL
     THEN /\ junk = 0
          /\ errno' = EINVAL
          /\ Done(call(-1))
     ELSE IF g \in DOMAIN nand
     THEN /\ junk = 0
          /\ errno' = errno
          /\ Done(call(nand_fan_out(nand, g)))
     ELSE /\ errno' = errno
          /\ Done(call(junk))
  /\ UNCHANGED <<nand, sigval, stale>>

\* ---------------------------------------------------------- evaluation
\* The state of one nand_evaluate call: the heap, the three stacks (the top
\* is the last element), the allocations made so far, the value returned
\* by the step just taken and errno.  Allocation number fail finds no
\* memory (0: every allocation succeeds).
DfsState(N, e) ==
  [N |-> N, stack |-> << >>, topo_order |-> << >>, all_gates |-> << >>,
   cnt |-> 0, ret |-> 0, errno |-> e]

\* stack_new: an allocation with no other effect on the model.
stack_new(d, fail) ==
  IF d.cnt + 1 = fail
  THEN [d EXCEPT !.cnt = @ + 1, !.ret = -1, !.errno = ENOMEM]
  ELSE [d EXCEPT !.cnt = @ + 1]

\* stack_push(which, x) followed by the caller's errno = ENOMEM; return -1.
stack_push(d, which, x, fail) ==
  IF d.cnt + 1 = fail
  THEN [d EXCEPT !.cnt = @ + 1, !.ret = -1, !.errno = ENOMEM]
  ELSE [d EXCEPT !.cnt = @ + 1, ![which] = Append(@, x)]

\* process_input_nand taking a gate still being processed for a visited one.
process_input_nand_NoCycleTest(d, g, fail) ==
  IF d.N[g].status = NOT_VISITED
  THEN LET d1 == stack_push(d, "all_gates", g, fail) IN
       IF d1.ret # 0 THEN d1
       ELSE stack_push([d1 EXCEPT !.N[g].status = CURRENTLY_PROCESSING],
                       "stack", [gate |-> g, ind |-> 0], fail)
  ELSE d

\* process_input_nand reporting a cycle with the errno of a failed push.
process_input_nand_CycleEnomem(d, g, fail) ==
  IF d.N[g].status = CURRENTLY_PROCESSING
  THEN [d EXCEPT !.ret = -1, !.errno = ENOMEM]
  ELSE process_input_nand_NoCycleTest(d, g, fail)

\* process_input_nand taking every gate met again for a cycle.
process_input_nand_VisitedIsCycle(d, g, fail) ==
  IF d.N[g].status # NOT_VISITED
  THEN [d EXCEPT !.ret = -1, !.errno = ECANCELED]
  ELSE process_input_nand_NoCycleTest(d, g, fail)

process_input_nand(d, g, fail) ==
  IF d.N[g].status = CURRENTLY_PROCESSING
  THEN [d EXCEPT !.ret = -1, !.errno = ECANCELED]
  ELSE IF d.N[g].status = NOT_VISITED
  THEN LET d1 == stack_push(d, "all_gates", g, fail) IN
       IF d1.ret # 0 THEN d1
       ELSE stack_push([d1 EXCEPT !.N[g].status = CURRENTLY_PROCESSING],
                       "stack", [gate |-> g, ind |-> 0], fail)
  ELSE d

\* process_input reporting an empty input with the errno of a bad argument.
process_input_EmptyEinval(d, input, fail) ==
  IF input.type = EMPTY_INPUT
  THEN [d EXCEPT !.ret = -1, !.errno = EINVAL]
  ELSE IF input.type = NAND_GATE_INPUT
  THEN process_input_nand(d, input.ptr, fail)
  ELSE d

process_input(d, input, fail) ==
  IF input.type = EMPTY_INPUT
  THEN [d EXCEPT !.ret = -1, !.errno = ECANCELED]
  ELSE IF input.type = NAND_GATE_INPUT
  THEN process_input_nand(d, input.ptr, fail)
  ELSE d

\* process_node counting the inputs done in the input's own index.
process_node_BumpsInd(d, fail) ==
  LET dfs_info == d.stack[Len(d.stack)]
      d1 == [d EXCEPT !.stack = SubSeq(@, 1, Len(@) - 1)]
      g  == dfs_info.gate
      k  == dfs_info.ind
  IN  IF k = d1.N[g].input_count
      THEN stack_push([d1 EXCEPT !.N[g].status = VISITED],
                      "topo_order", g, fail)
      ELSE LET d2 == stack_push([d1 EXCEPT !.N[g].inputs[k].ind = @ + 1],
                                "stack", [gate |-> g, ind |-> k + 1], fail)
           IN  IF d2.ret # 0 THEN d2
               ELSE process_input(d2, d2.N[g].inputs[k], fail)

process_node(d, fail) ==
  LET dfs_info == d.stack[Len(d.stack)]
      d1 == [d EXCEPT !.stack = SubSeq(@, 1, Len(@) - 1)]
      g  == dfs_info.gate
      k  == dfs_info.ind
  IN  IF k = d1.N[g].input_count
      THEN stack_push([d1 EXCEPT !.N[g].status = VISITED],
                      "topo_order", g, fail)
      ELSE LET d2 == stack_push(d1, "stack", [gate |-> g, ind |-> k + 1], fail)
           IN  IF d2.ret # 0 THEN d2
               ELSE process_input(d2, d2.N[g].inputs[k], fail)

\* The while loop of topo_sort_dfs.
RECURSIVE DfsLoop(_, _)
DfsLoop(d, fail) ==
  IF d.ret # 0 \/ Len(d.stack) = 0 THEN d
  ELSE DfsLoop(process_node(d, fail), fail)

topo_sort_dfs(d, g, fail) ==
  LET d1 == stack_push(d, "all_gates", g, fail)
      d2 == IF d1.ret # 0 THEN d1
            ELSE stack_push(d1, "stack", [gate |-> g, ind |-> 0], fail)
  IN  IF d2.ret # 0 THEN d2
      ELSE DfsLoop([d2 EXCEPT !.N[g].status = CURRENTLY_PROCESSING], fail)

\* The for loop of topo_sort, from g[i] on (i counts from 1 here).
\* The loop of topo_sort without its test for a gate already VISITED.
RECURSIVE TopoLoop_NoVisitedTest(_, _, _, _)
TopoLoop_NoVisitedTest(d, g, i, fail) ==
  IF i > Len(g) \/ d.ret # 0 THEN d
  ELSE TopoLoop_NoVisitedTest(topo_sort_dfs(d, g[i], fail), g, i + 1, fail)

RECURSIVE TopoLoop(_, _, _, _)
TopoLoop(d, g, i, fail) ==
  IF i > Len(g) \/ d.ret # 0 THEN d
  ELSE IF d.N[g[i]].status = VISITED THEN TopoLoop(d, g, i + 1, fail)
  ELSE TopoLoop(topo_sort_dfs(d, g[i], fail), g, i + 1, fail)

\* topo_sort without its call of clear_gates.
clear_gates_Skipped(d) == d

RECURSIVE clear_gates(_)
clear_gates(d) ==
  IF Len(d.all_gates) = 0 THEN d
  ELSE LET h == d.all_gates[Len(d.all_gates)]
       IN  clear_gates([d EXCEPT !.all_gates = SubSeq(@, 1, Len(@) - 1),
                                 !.N[h].status = NOT_VISITED])

\* topo_sort going through every gate of the heap, not the gates of g.
topo_sort_WholeHeap(d, g, fail) ==
  LET n   == Cardinality(DOMAIN d.N)
      all == CHOOSE s \in [1..n -> DOMAIN d.N] :
               \A i, j \in 1..n : i < j => s[i] < s[j]
      d1 == stack_new(d, fail)
      d2 == IF d1.ret # 0 THEN d1 ELSE stack_new(d1, fail)
  IN  IF d2.ret # 0 THEN d2
      ELSE LET d3 == clear_gates(TopoLoop(d2, all, 1, fail))
           IN  [d3 EXCEPT !.stack = << >>,
                          !.topo_order = stack_reverse(@)]

\* topo_sort without the stack_reverse of topo_order.
topo_sort_NoReverse(d, g, fail) ==
  LET d1 == stack_new(d, fail)
      d2 == IF d1.ret # 0 THEN d1 ELSE stack_new(d1, fail)
  IN  IF d2.ret # 0 THEN d2
      ELSE LET d3 == clear_gates(TopoLoop(d2, g, 1, fail))
           IN  [d3 EXCEPT !.stack = << >>]

topo_sort(d, g, fail) ==
  LET d1 == stack_new(d, fail)
      d2 == IF d1.ret # 0 THEN d1 ELSE stack_new(d1, fail)
  IN  IF d2.ret # 0 THEN d2
      ELSE LET d3 == clear_gates(TopoLoop(d2, g, 1, fail))
           IN  [d3 EXCEPT !.stack = << >>,
                          !.topo_order = stack_reverse(@)]

\* EvalInputs with = where the code has &=.
RECURSIVE EvalInputs_Assign(_, _, _, _)
EvalInputs_Assign(N, g, i, sv) ==
  IF i >= N[g].input_count THEN N
  ELSE LET in == N[g].inputs[i] IN
       IF in.type = BOOLEAN_SIGNAL_INPUT
       THEN EvalInputs_Assign(
              [N EXCEPT ![g].crit_path_len = IF @ < 1 THEN 1 ELSE @,
                        ![g].signal = sv[in.ptr]],
              g, i + 1, sv)
       ELSE LET h == in.ptr IN
            EvalInputs_Assign(
              [N EXCEPT ![g].crit_path_len =
                          IF @ < N[h].crit_path_len + 1
                          THEN N[h].crit_path_len + 1 ELSE @,
                        ![g].signal = N[h].signal],
              g, i + 1, sv)

\* EvalInputs taking the source's critical path without the gate's own delay.
RECURSIVE EvalInputs_NoDelay(_, _, _, _)
EvalInputs_NoDelay(N, g, i, sv) ==
  IF i >= N[g].input_count THEN N
  ELSE LET in == N[g].inputs[i] IN
       IF in.type = BOOLEAN_SIGNAL_INPUT
       THEN EvalInputs_NoDelay(
              [N EXCEPT ![g].crit_path_len = IF @ < 1 THEN 1 ELSE @,
                        ![g].signal = @ /\ sv[in.ptr]],
              g, i + 1, sv)
       ELSE LET h == in.ptr IN
            EvalInputs_NoDelay(
              [N EXCEPT ![g].crit_path_len =
                          IF @ < N[h].crit_path_len
                          THEN N[h].crit_path_len ELSE @,
                        ![g].signal = @ /\ N[h].signal],
              g, i + 1, sv)

\* EvalInputs taking the pointer to the bool, never NULL, for its value.
RECURSIVE EvalInputs_PtrAsBool(_, _, _, _)
EvalInputs_PtrAsBool(N, g, i, sv) ==
  IF i >= N[g].input_count THEN N
  ELSE LET in == N[g].inputs[i] IN
       IF in.type = BOOLEAN_SIGNAL_INPUT
       THEN EvalInputs_PtrAsBool(
              [N EXCEPT ![g].crit_path_len = IF @ < 1 THEN 1 ELSE @,
                        ![g].signal = @ /\ (in.ptr # NULL)],
              g, i + 1, sv)
       ELSE LET h == in.ptr IN
            EvalInputs_PtrAsBool(
              [N EXCEPT ![g].crit_path_len =
                          IF @ < N[h].crit_path_len + 1
                          THEN N[h].crit_path_len + 1 ELSE @,
                        ![g].signal = @ /\ N[h].signal],
              g, i + 1, sv)

\* The for loop of evaluate_sorted over the inputs of g, from input i on.
RECURSIVE EvalInputs(_, _, _, _)
EvalInputs(N, g, i, sv) ==
  IF i >= N[g].input_count THEN N
  ELSE LET in == N[g].inputs[i] IN
       IF in.type = BOOLEAN_SIGNAL_INPUT
       THEN EvalInputs(
              [N EXCEPT ![g].crit_path_len = IF @ < 1 THEN 1 ELSE @,
                        ![g].signal = @ /\ sv[in.ptr]],
              g, i + 1, sv)
       ELSE LET h == in.ptr IN
            EvalInputs(
              [N EXCEPT ![g].crit_path_len =
                          IF @ < N[h].crit_path_len + 1
                          THEN N[h].crit_path_len + 1 ELSE @,
                        ![g].signal = @ /\ N[h].signal],
              g, i + 1, sv)

\* evaluate_sorted starting the AND from the signal the gate holds.
RECURSIVE evaluate_sorted_KeepsSignal(_, _, _)
evaluate_sorted_KeepsSignal(N, s, sv) ==
  IF Len(s) = 0 THEN N
  ELSE LET g  == s[Len(s)]
           N1 == EvalInputs([N EXCEPT ![g].crit_path_len = 0], g, 0, sv)
       IN  evaluate_sorted_KeepsSignal([N1 EXCEPT ![g].signal = ~@],
                                       SubSeq(s, 1, Len(s) - 1), sv)

\* evaluate_sorted(s): s is popped from its top.
RECURSIVE evaluate_sorted(_, _, _)
evaluate_sorted(N, s, sv) ==
  IF Len(s) = 0 THEN N
  ELSE LET g  == s[Len(s)]
           N1 == EvalInputs([N EXCEPT ![g].signal = TRUE,
                                      ![g].crit_path_len = 0], g, 0, sv)
       IN  evaluate_sorted([N1 EXCEPT ![g].signal = ~@],
                           SubSeq(s, 1, Len(s) - 1), sv)

\* MaxCrit keeping the critical path of the last gate, not the longest.
MaxCrit_LastGate(N, g, i) ==
  IF i = 0 THEN 0 ELSE N[g[i]].crit_path_len

\* MaxCrit returning the critical path of the first gate.
MaxCrit_FirstGate(N, g, i) ==
  IF i = 0 THEN 0 ELSE N[g[1]].crit_path_len

\* The critical path nand_evaluate_all returns: l after g[1..i].
RECURSIVE MaxCrit(_, _, _)
MaxCrit(N, g, i) ==
  IF i = 0 THEN 0
  ELSE LET l == MaxCrit(N, g, i - 1)
       IN  IF l < N[g[i]].crit_path_len THEN N[g[i]].crit_path_len ELSE l

\* nand_evaluate_all evaluating what topo_order holds after a failed sort.
nand_evaluate_all_PartialEval(N, g, sv, e, fail) ==
  LET d0 == stack_new(DfsState(N, e), fail)
      d1 == IF d0.ret # 0 THEN d0 ELSE topo_sort(d0, g, fail)
      N1 == evaluate_sorted(d1.N, d1.topo_order, sv)
  IN  IF d1.ret # 0
      THEN [N |-> N1, s |-> << >>, ret |-> -1, errno |-> d1.errno,
            cnt |-> d1.cnt]
      ELSE [N |-> N1, s |-> [i \in 1..Len(g) |-> N1[g[i]].signal],
            ret |-> MaxCrit(N1, g, Len(g)), errno |-> d1.errno,
            cnt |-> d1.cnt]

\* nand_evaluate_all(g, s, m): the heap, the array s, the value returned
\* and errno when it returns.
nand_evaluate_all(N, g, sv, e, fail) ==
  LET d0 == stack_new(DfsState(N, e), fail)
      d1 == IF d0.ret # 0 THEN d0 ELSE topo_sort(d0, g, fail)
  IN  IF d1.ret # 0
      THEN [N |-> d1.N, s |-> << >>, ret |-> -1, errno |-> d1.errno,
            cnt |-> d1.cnt]
      ELSE LET N1 == evaluate_sorted(d1.N, d1.topo_order, sv)
           IN  [N |-> N1, s |-> [i \in 1..Len(g) |-> N1[g[i]].signal],
                ret |-> MaxCrit(N1, g, Len(g)), errno |-> d1.errno,
                cnt |-> d1.cnt]

\* The bools some input of the network points to.
Wired(N) ==
  UNION {{N[h].inputs[i].ptr : i \in DOMAIN N[h].inputs} : h \in DOMAIN N}
    \cap Signals

\* nand_evaluate(g, s, m) with m = Len(g); bad names a null array argument
\* ("g", "s") or is "none".  The call is made when the caller's bools hold
\* sv (bools no input points to are left as they are), and allocation
\* number fail of the call finds no memory.
nand_evaluate(g, bad) ==
  LET call(ret, out, mem) ==
        Call("nand_evaluate", NULL, NULL, 0, g, ret, out, mem)
  IN
  /\ Budget
  /\ UNCHANGED stale
  /\ IF bad # "none" \/ Len(g) = 0 \/ \E i \in 1..Len(g) : g[i] = NULL
     THEN /\ bad # "none" => g = << >>
          /\ errno' = EINVAL
          /\ UNCHANGED <<nand, sigval>>
          /\ Done(call(-1, << >>, TRUE))
     ELSE LET allocs == nand_evaluate_all(nand, g, sigval, errno, 0).cnt IN
          \/ \E sv \in [Signals -> BOOLEAN] :
               LET r == nand_evaluate_all(nand, g, sv, errno, 0) IN
               /\ \A s \in Signals \ Wired(nand) : sv[s] = sigval[s]
               /\ sigval' = sv
               /\ nand' = r.N
               /\ errno' = r.errno
               /\ Done(call(r.ret, r.s, TRUE))
          \/ \E fail \in 1..allocs :
               LET r == nand_evaluate_all(nand, g, sigval, errno, fail) IN
               /\ sigval' = sigval
               /\ nand' = r.N
               /\ errno' = r.errno
               /\ Done([call(r.ret, r.s, FALSE) EXCEPT !.fail = fail])

\* What a read outside an array may give when it is taken for a gate
\* pointer: NULL, the address of a gate, an address of none.
Wild == 0..(MaxGates + 1)

\* A call of nand_output(g, k), k being of the signed type ssize_t.  A
\* negative k is below the fan-out, so the test lets it through and the
\* record is read outside the array.
output(g, k, junk) ==
  LET call(ret) == Call("nand_output", g, NULL, k, << >>, ret, << >>, TRUE)
  IN
  /\ Budget
  /\ IF g = NULL \/ k >= nand_fan_out(nand, g)
     THEN /\ junk = NULL
          /\ errno' = EINVAL
          /\ Done(call(NULL))
     ELSE IF k >= 0
     THEN /\ junk = NULL
          /\ errno' = errno
          /\ Done(call(darray_get(nand[g].outputs, k).gate))
     ELSE /\ errno' = errno
          /\ Done(call(junk))
  /\ UNCHANGED <<nand, sigval, stale>>

\* The arrays of at most MaxReq pointers a caller may pass.
Requests == UNION {[1..m -> Live \cup {NULL}] : m \in 0..MaxReq}

Init ==
  /\ nand = << >>
  /\ sigval = [s \in Signals |-> FALSE]
  /\ errno = ENONE
  /\ last = Call("init", NULL, NULL, 0, << >>, 0, << >>, TRUE)
  /\ pre = << >>
  /\ prev = NoCall
  /\ stale = {}
  /\ nops = 0

Next ==
  \/ \E n \in 0..MaxArity, mem \in BOOLEAN : nand_new(n, mem)
  \/ \E g \in Live \cup {NULL} : nand_delete(g)
  \/ \E g_out \in Live \cup {NULL}, g_in \in Live \cup {NULL},
        k \in 0..MaxArity, mem \in BOOLEAN :
          nand_connect_nand(g_out, g_in, k, mem)
  \/ \E s \in Signals \cup {NULL}, g \in Live \cup {NULL}, k \in 0..MaxArity :
          nand_connect_signal(s, g, k)
  \/ \E g \in Live, k \in 0..(MaxArity - 1) : disconnect(g, k)
  \/ \E g \in Requests, bad \in {"none", "g", "s"} : nand_evaluate(g, bad)
  \/ \E g \in Live \cup stale \cup {NULL}, junk \in Garbage : fan_out(g, junk)
  \/ \E g \in Live \cup {NULL}, k \in (-1)..MaxArity, junk \in Wild :
          output(g, k, junk)

Spec == Init /\ [][Next]_vars

\* ================================================================ claims
\* Input k of gate T points to gate S.
Feeds(N, S, T, k) ==
  /\ N[T].inputs[k].type = NAND_GATE_INPUT
  /\ N[T].inputs[k].ptr = S

\* The inputs of the heap: the pairs <<gate, index>>.
Slots(N) == UNION {{<<T, k>> : k \in DOMAIN N[T].inputs} : T \in DOMAIN N}

\* The last call was nand_connect_nand with valid arguments.
ConnectCall ==
  /\ last.op = "nand_connect_nand"
  /\ last.a \in DOMAIN pre
  /\ last.b \in DOMAIN pre
  /\ last.k < pre[last.b].input_count

\* C1: after every call, if input k of a gate T points to gate S with
\* index i, then S is allocated, i is below the fan-out of S and output
\* record i of S is (T, k).
C1_Pairing ==
  \A sl \in Slots(nand) :
    LET in == nand[sl[1]].inputs[sl[2]] IN
    in.type = NAND_GATE_INPUT =>
      /\ in.ptr \in DOMAIN nand
      /\ in.ind < nand_fan_out(nand, in.ptr)
      /\ darray_get(nand[in.ptr].outputs, in.ind) = out_info(sl[1], sl[2])

\* C1 witness: an input was disconnected from a gate whose record for it
\* was not the last one, so that another input's index had to be rewritten.
C1_Witness ==
  /\ last.op = "nand_disconnect_input"
  /\ pre[last.a].inputs[last.k].type = NAND_GATE_INPUT
  /\ \E sl \in Slots(nand) :
       /\ nand[sl[1]].inputs[sl[2]].type = NAND_GATE_INPUT
       /\ nand[sl[1]].inputs[sl[2]].ind # pre[sl[1]].inputs[sl[2]].ind

\* C2: after nand_delete(G), G is gone, no output record of a remaining
\* gate names G, no input of a remaining gate points to G, and every input
\* that pointed to G is empty.
C2_DeleteLeavesNoTrace ==
  (last.op = "nand_delete" /\ last.a # NULL) =>
    LET G == last.a IN
    /\ DOMAIN nand = DOMAIN pre \ {G}
    /\ \A T \in DOMAIN nand :
         /\ \A i \in 1..Len(nand[T].outputs) : nand[T].outputs[i].gate # G
         /\ \A k \in DOMAIN nand[T].inputs :
              /\ nand[T].inputs[k].ptr # G
              /\ Feeds(pre, G, T, k) => nand[T].inputs[k] = EmptyIn

\* C2 witness: the deleted gate was wired to itself and fed a gate that
\* remains.
C2_Witness ==
  /\ last.op = "nand_delete"
  /\ last.a \in DOMAIN pre
  /\ \E k \in DOMAIN pre[last.a].inputs : Feeds(pre, last.a, last.a, k)
  /\ \E T \in DOMAIN nand : \E k \in DOMAIN pre[T].inputs :
       Feeds(pre, last.a, T, k)

\* C3 as claimed: after a successful nand_connect_nand(A, B, k),
\* nand_input(B, k) is A and the fan-out of A is one more than before.
C3_Original ==
  (ConnectCall /\ last.ret = 0) =>
    /\ nand_input(nand, last.b, last.k) = last.a
    /\ nand_fan_out(nand, last.a) = nand_fan_out(pre, last.a) + 1

\* C3 amended: after a successful nand_connect_nand(A, B, k),
\* nand_input(B, k) is A; the fan-out of A is one more than before when
\* input k of B did not point to A, and what it was when it did.
C3_ConnectThenQuery ==
  (ConnectCall /\ last.ret = 0) =>
    /\ nand_input(nand, last.b, last.k) = last.a
    /\ nand_fan_out(nand, last.a) =
         nand_fan_out(pre, last.a)
           + (IF Feeds(pre, last.a, last.b, last.k) THEN 0 ELSE 1)

\* C3 witness: a successful connection of A to an input of another gate B
\* that pointed to something else, A feeding an input already.
C3_Witness ==
  /\ ConnectCall
  /\ last.ret = 0
  /\ last.a # last.b
  /\ ~Feeds(pre, last.a, last.b, last.k)
  /\ nand_fan_out(pre, last.a) = 1
  /\ nand_fan_out(nand, last.a) = 2

\* C4: nand_connect_nand(source, target, k) on an input that already points
\* to source returns 0 and leaves every record of the heap as it was.
C4_Idempotent ==
  (ConnectCall /\ Feeds(pre, last.a, last.b, last.k)) =>
    /\ last.ret = 0
    /\ nand = pre

\* C4 witness: the repeated connection is of an input whose record is not
\* the last one of the source's outputs.
C4_Witness ==
  /\ ConnectCall
  /\ Feeds(pre, last.a, last.b, last.k)
  /\ pre[last.b].inputs[last.k].ind + 1 < nand_fan_out(pre, last.a)
  /\ last.ret = 0

\* C5: nand_disconnect_input(target, k) leaves input k empty, whatever it
\* held, and changes nothing when it was empty.
C5_DisconnectEmpties ==
  last.op = "nand_disconnect_input" =>
    /\ nand[last.a].inputs[last.k] = EmptyIn
    /\ pre[last.a].inputs[last.k].type = EMPTY_INPUT => nand = pre

\* C5 witness: the disconnected input pointed to a gate.
C5_Witness ==
  /\ last.op = "nand_disconnect_input"
  /\ pre[last.a].inputs[last.k].type = NAND_GATE_INPUT
  /\ nand[last.a].inputs[last.k] = EmptyIn

\* ------------------------------------------------- evaluation claims
\* The gates feeding an input of g.
Sources(N, g) ==
  {N[g].inputs[k].ptr :
     k \in {j \in DOMAIN N[g].inputs : N[g].inputs[j].type = NAND_GATE_INPUT}}

\* The gates of S and every gate feeding, directly or not, one of them.
RECURSIVE Closure(_, _)
Closure(N, S) ==
  LET S1 == S \cup UNION {Sources(N, g) : g \in S}
  IN  IF S1 = S THEN S ELSE Closure(N, S1)

\* Some gate of S feeds itself, directly or through other gates.
Cyclic(N, S) == \E g \in S : g \in Closure(N, Sources(N, g))

\* Some gate of S has an empty input.
HasEmpty(N, S) ==
  \E g \in S : \E k \in DOMAIN N[g].inputs : N[g].inputs[k].type = EMPTY_INPUT

\* The arrays nand_evaluate accepts: not empty, no null pointer.
ValidRequests == {g \in Requests : Len(g) > 0 /\ NULL \notin Range(g)}

\* The last call was nand_evaluate with arguments it accepts.
EvalCall == last.op = "nand_evaluate" /\ last.req \in ValidRequests

\* The dependency closure of the last call's gates.
Requested == Closure(pre, Range(last.req))

Max(S) == CHOOSE x \in S : \A y \in S : y <= x

\* The value input k of g contributes.
SlotValue(N, g, k) ==
  IF N[g].inputs[k].type = BOOLEAN_SIGNAL_INPUT
  THEN sigval[N[g].inputs[k].ptr]
  ELSE N[N[g].inputs[k].ptr].signal

\* C6: after a successful nand_evaluate, no gate of the closure has an
\* empty input and the signal of each is NOT(AND of its input values), a
\* gate input contributing its source's signal; a gate with two signal
\* inputs gives FALSE on (TRUE, TRUE) and TRUE on every other pair.
C6_SignalIsNand ==
  (EvalCall /\ last.ret >= 0) =>
    \A g \in Requested :
      /\ ~HasEmpty(nand, {g})
      /\ nand[g].signal =
           ~(\A k \in DOMAIN nand[g].inputs : SlotValue(nand, g, k))
      /\ (/\ nand[g].input_count = 2
          /\ nand[g].inputs[0].type = BOOLEAN_SIGNAL_INPUT
          /\ nand[g].inputs[1].type = BOOLEAN_SIGNAL_INPUT)
         => nand[g].signal =
              (IF sigval[nand[g].inputs[0].ptr] /\ sigval[nand[g].inputs[1].ptr]
               THEN FALSE ELSE TRUE)

\* C6 witness: a gate fed by a gate and by a signal that is TRUE was
\* evaluated.
C6_Witness ==
  /\ EvalCall
  /\ last.ret >= 0
  /\ \E g \in Requested :
       /\ nand[g].input_count = 2
       /\ nand[g].inputs[0].type = NAND_GATE_INPUT
       /\ nand[g].inputs[1].type = BOOLEAN_SIGNAL_INPUT
       /\ sigval[nand[g].inputs[1].ptr]
       /\ nand[g].signal

\* The critical path of g from those of its sources.
CritOf(N, g) ==
  IF N[g].input_count = 0 THEN 0
  ELSE Max({1 : k \in {j \in DOMAIN N[g].inputs :
                         N[g].inputs[j].type = BOOLEAN_SIGNAL_INPUT}}
           \cup {1 + N[h].crit_path_len : h \in Sources(N, g)})

\* The length of the chain ending in g: every gate of it has inputs, one of
\* them fed by the gate before it and the others by signals; the first has
\* only signals.  0 when g ends no such chain.
RECURSIVE ChainLen(_, _)
ChainLen(N, g) ==
  LET gates == {k \in DOMAIN N[g].inputs : N[g].inputs[k].type = NAND_GATE_INPUT}
  IN  IF N[g].input_count = 0 \/ HasEmpty(N, {g}) \/ Cardinality(gates) > 1
      THEN 0
      ELSE IF gates = {} THEN 1
      ELSE LET c == ChainLen(N, N[g].inputs[CHOOSE k \in gates : TRUE].ptr)
           IN  IF c = 0 THEN 0 ELSE c + 1

\* C7: after a successful nand_evaluate, the critical path of each gate of
\* the closure is 0 when it has no input, and otherwise the largest of 1 (if
\* an input is a signal) and 1 + the critical path of each source; the last
\* gate of a chain of k gates has critical path k.
C7_CriticalPath ==
  (EvalCall /\ last.ret >= 0) =>
    \A g \in Requested :
      /\ nand[g].crit_path_len = CritOf(nand, g)
      /\ ChainLen(nand, g) > 0 => nand[g].crit_path_len = ChainLen(nand, g)

\* C7 witness: a chain of two gates was evaluated and two was returned.
C7_Witness ==
  /\ EvalCall
  /\ last.ret = 2
  /\ \E g \in Requested : ChainLen(nand, g) = 2 /\ nand[g].crit_path_len = 2

\* C8 as claimed: nand_evaluate on gates whose closure has a cycle and no
\* empty input fails with ECANCELED.
C8_Original ==
  (EvalCall /\ Cyclic(pre, Requested) /\ ~HasEmpty(pre, Requested)) =>
    (last.ret = -1 /\ errno = ECANCELED)

\* C8 amended: nand_evaluate on gates whose closure has a cycle and no empty
\* input fails, with ECANCELED when every allocation of the call succeeds
\* and with ENOMEM when one does not.
C8_CycleDetected ==
  (EvalCall /\ Cyclic(pre, Requested) /\ ~HasEmpty(pre, Requested)) =>
    /\ last.ret = -1
    /\ errno = (IF last.mem THEN ECANCELED ELSE ENOMEM)

\* C8 witness: the gate asked for is on no cycle and is fed by a gate that
\* feeds itself; the call found memory and failed with ECANCELED.
C8_Witness ==
  /\ EvalCall
  /\ last.mem
  /\ Len(last.req) = 1
  /\ ~Cyclic(pre, {last.req[1]})
  /\ Cyclic(pre, Requested)
  /\ ~HasEmpty(pre, Requested)
  /\ last.ret = -1
  /\ errno = ECANCELED

\* C9 as claimed: nand_evaluate on gates whose closure has no cycle and has
\* an empty input fails with ECANCELED.
C9_Original ==
  (EvalCall /\ ~Cyclic(pre, Requested) /\ HasEmpty(pre, Requested)) =>
    (last.ret = -1 /\ errno = ECANCELED)

\* C9 amended: nand_evaluate on gates whose closure has no cycle and has an
\* empty input fails, with ECANCELED when every allocation of the call
\* succeeds and with ENOMEM when one does not.
C9_UnconnectedInput ==
  (EvalCall /\ ~Cyclic(pre, Requested) /\ HasEmpty(pre, Requested)) =>
    /\ last.ret = -1
    /\ errno = (IF last.mem THEN ECANCELED ELSE ENOMEM)

\* C9 witness: the gate asked for has no empty input and is fed by a gate
\* that has one; the call found memory and failed with ECANCELED.
C9_Witness ==
  /\ EvalCall
  /\ last.mem
  /\ Len(last.req) = 1
  /\ ~HasEmpty(pre, {last.req[1]})
  /\ HasEmpty(pre, Requested)
  /\ ~Cyclic(pre, Requested)
  /\ last.ret = -1
  /\ errno = ECANCELED

\* What nand_evaluate on g returns and leaves in errno when it finds memory.
Outcome(N, g) ==
  LET r == nand_evaluate_all(N, g, sigval, errno, 0) IN <<r.ret, r.errno>>

\* g fails for an empty input only / for a cycle only.
EmptyOnly(N, g) ==
  LET S == Closure(N, Range(g)) IN HasEmpty(N, S) /\ ~Cyclic(N, S)

CycleOnly(N, g) ==
  LET S == Closure(N, Range(g)) IN Cyclic(N, S) /\ ~HasEmpty(N, S)

\* C10 as claimed: a call that fails for an empty input is not reported as
\* a call that fails for a cycle is, nor as ENOMEM or EINVAL.
C10_Original ==
  (EvalCall /\ last.mem /\ EmptyOnly(pre, last.req)) =>
    /\ errno \notin {ENOMEM, EINVAL}
    /\ \A g \in ValidRequests :
         CycleOnly(nand, g) => Outcome(nand, g) # <<last.ret, errno>>

\* C10 amended: a call that finds memory and fails for an empty input or
\* for a cycle returns -1 with errno ECANCELED, which is neither ENOMEM nor
\* EINVAL; the two causes are reported alike.
C10_ErrorKinds ==
  (EvalCall /\ last.mem
     /\ (HasEmpty(pre, Requested) \/ Cyclic(pre, Requested))) =>
    /\ last.ret = -1
    /\ errno = ECANCELED
    /\ errno \notin {ENOMEM, EINVAL}
    /\ \A g \in ValidRequests :
         (EmptyOnly(nand, g) \/ CycleOnly(nand, g)) =>
           Outcome(nand, g) = <<last.ret, errno>>

\* C10 witness: a call failed for an empty input while another gate of the
\* heap feeds itself, and a call on that gate is reported the same way.
C10_Witness ==
  /\ EvalCall
  /\ last.mem
  /\ EmptyOnly(pre, last.req)
  /\ \E g \in ValidRequests :
       CycleOnly(nand, g) /\ Outcome(nand, g) = <<last.ret, errno>>

\* C11: nand_evaluate on gates whose closure has no cycle and no empty input
\* succeeds when every allocation of the call finds memory, and fills the
\* whole array s; so it does when a gate of the closure is met more than
\* once, feeding several inputs or being asked for and fed from.
C11_NoFalseFailure ==
  (EvalCall /\ last.mem
     /\ ~Cyclic(pre, Requested) /\ ~HasEmpty(pre, Requested)) =>
    /\ last.ret >= 0
    /\ Len(last.out) = Len(last.req)

\* C11 witness: a gate feeding both inputs of another was evaluated through
\* it, and asked for as well.
C11_Witness ==
  /\ EvalCall
  /\ last.mem
  /\ last.ret >= 0
  /\ \E T \in Range(last.req) : \E S \in Range(last.req) \ {T} :
       /\ pre[T].input_count = 2
       /\ Feeds(pre, S, T, 0)
       /\ Feeds(pre, S, T, 1)

\* The last two calls were nand_evaluate, the second while the caller's
\* bools held what they held at the first.  No call came between them, so
\* the network of the second is the one the first left.
TwoCalls ==
  /\ last.op = "nand_evaluate"
  /\ prev.call.op = "nand_evaluate"
  /\ prev.sigval = sigval

\* What the caller gets from a call: the value returned, the array s and,
\* for a failure, errno.
Result(c, e) == <<c.ret, c.out, IF c.ret = -1 THEN e ELSE ENONE>>

\* C12 as claimed: two nand_evaluate calls in a row with the same array g
\* and the same values of the caller's bools give the same result, also
\* when the first failed.
C12_Original ==
  (TwoCalls /\ prev.call.req = last.req) =>
    Result(last, errno) = Result(prev.call, prev.errno)

\* C12 amended: two nand_evaluate calls in a row with the same array g and
\* the same values of the caller's bools give the same result (the value
\* returned, the signals, errno of a failure) when both find memory or
\* neither does; also when the first failed.
C12_Repeatable ==
  (TwoCalls /\ prev.call.req = last.req /\ prev.call.mem = last.mem) =>
    Result(last, errno) = Result(prev.call, prev.errno)

\* C12 witness: the first call failed on a cycle below the gate asked for,
\* leaving gates half processed, and the second call failed the same way.
C12_Witness ==
  /\ TwoCalls
  /\ prev.call.req = last.req
  /\ last.req \in ValidRequests
  /\ prev.call.mem /\ last.mem
  /\ ~Cyclic(pre, {last.req[1]})
  /\ Cyclic(pre, Requested)
  /\ prev.call.ret = -1
  /\ last.ret = -1
  /\ errno = ECANCELED

\* s is t in another order.
IsPermutation(s, t) ==
  /\ Len(s) = Len(t)
  /\ \E p \in [1..Len(s) -> 1..Len(s)] :
       /\ \A i, j \in 1..Len(s) : p[i] = p[j] => i = j
       /\ \A i \in 1..Len(s) : s[i] = t[p[i]]

\* C13: two nand_evaluate calls in a row that find memory, the array g of
\* the second being that of the first in another order, return the same
\* value (the critical path, or -1) and, when they succeed, the same signal
\* for each gate at the place of that gate.
C13_OrderIrrelevant ==
  (TwoCalls /\ IsPermutation(last.req, prev.call.req)
     /\ prev.call.mem /\ last.mem) =>
    /\ last.ret = prev.call.ret
    /\ last.ret >= 0 =>
         \A i, j \in 1..Len(last.req) :
           last.req[i] = prev.call.req[j] => last.out[i] = prev.call.out[j]

\* C13 witness: two gates of different signals and critical paths were
\* evaluated in one order and then in the other.
C13_Witness ==
  /\ TwoCalls
  /\ Len(last.req) = 2
  /\ last.req = <<prev.call.req[2], prev.call.req[1]>>
  /\ last.req[1] # last.req[2]
  /\ last.ret >= 1
  /\ prev.call.ret = last.ret
  /\ last.out[1] # last.out[2]
  /\ nand[last.req[1]].crit_path_len # nand[last.req[2]].crit_path_len

\* C14: when nand_evaluate returns, having succeeded or failed (a cycle, an
\* empty input, an allocation failure at any push, a bad argument), the
\* status of every gate of the heap is NOT_VISITED.
C14_StatusRestored ==
  last.op = "nand_evaluate" =>
    \A g \in DOMAIN nand : nand[g].status = NOT_VISITED

\* C14 witness: the call failed at a push onto topo_order or later, when a
\* gate had been marked VISITED or CURRENTLY_PROCESSING.
C14_Witness ==
  /\ EvalCall
  /\ ~last.mem
  /\ last.fail >= 9
  /\ last.ret = -1
  /\ errno = ENOMEM
  /\ \A g \in DOMAIN nand : nand[g].status = NOT_VISITED

\* C15: nand_evaluate, succeeding or failing, leaves the gates that exist,
\* the inputs of each (type, pointer, index) and the outputs of each (the
\* records and their order) as they were.
C15_TopologyKept ==
  last.op = "nand_evaluate" =>
    /\ DOMAIN nand = DOMAIN pre
    /\ \A g \in DOMAIN nand :
         /\ nand[g].input_count = pre[g].input_count
         /\ nand[g].inputs = pre[g].inputs
         /\ nand[g].outputs = pre[g].outputs

\* C15 witness: the call changed the signal of a gate one of whose inputs
\* holds the index of a second output record.
C15_Witness ==
  /\ EvalCall
  /\ \E g \in Requested : \E k \in DOMAIN pre[g].inputs :
       /\ pre[g].inputs[k].type = NAND_GATE_INPUT
       /\ pre[g].inputs[k].ind = 1
       /\ nand[g].signal # pre[g].signal

\* C16: nand_evaluate leaves every gate outside the closure of g as it
\* was: its signal, its critical path, its status and the rest of it.
C16_OnlyClosure ==
  EvalCall => \A g \in DOMAIN nand \ Requested : nand[g] = pre[g]

\* C16 witness: the call succeeded and changed a gate that feeds a gate
\* outside the closure.
C16_Witness ==
  /\ EvalCall
  /\ last.ret >= 0
  /\ \E h \in DOMAIN nand \ Requested : \E k \in DOMAIN pre[h].inputs :
       /\ pre[h].inputs[k].type = NAND_GATE_INPUT
       /\ pre[h].inputs[k].ptr \in Requested
       /\ nand[pre[h].inputs[k].ptr] # pre[pre[h].inputs[k].ptr]

\* C17: when nand_evaluate fails (a cycle, an empty input, an allocation
\* failure, a bad argument), no element of the array s is written and the
\* signal and the critical path of every gate are what they were.
C17_FailureAtomic ==
  (last.op = "nand_evaluate" /\ last.ret = -1) =>
    /\ last.out = << >>
    /\ \A g \in DOMAIN nand :
         /\ nand[g].signal = pre[g].signal
         /\ nand[g].crit_path_len = pre[g].crit_path_len

\* C17 witness: the first gate asked for could be evaluated, which would
\* have changed its critical path, and the second has an empty input.
C17_Witness ==
  /\ EvalCall
  /\ last.mem
  /\ last.ret = -1
  /\ Len(last.req) = 2
  /\ LET S == Closure(pre, {last.req[1]}) IN
       /\ ~HasEmpty(pre, S)
       /\ ~Cyclic(pre, S)
       /\ last.req[2] \notin S
  /\ pre[last.req[1]].input_count > 0
  /\ pre[last.req[1]].crit_path_len = 0
  /\ HasEmpty(pre, {last.req[2]})

\* C18: when darray_push_back finds no memory in nand_connect_nand, the call
\* returns -1 with errno ENOMEM and the heap is what it was: the input keeps
\* what it held, with the output record of the gate it pointed to, and the
\* outputs of g_out are unchanged.
C18_ConnectAllocFailure ==
  (ConnectCall /\ ~last.mem) =>
    /\ last.ret = -1
    /\ errno = ENOMEM
    /\ nand = pre

\* C18 witness: the input pointed to another gate when the push failed.
C18_Witness ==
  /\ ConnectCall
  /\ ~last.mem
  /\ pre[last.b].inputs[last.k].type = NAND_GATE_INPUT
  /\ pre[last.b].inputs[last.k].ptr # last.a
  /\ last.ret = -1

\* C19: nand_connect_nand and nand_connect_signal return -1 with errno
\* EINVAL and leave the heap as it was when a pointer is NULL or k is not
\* below the number of inputs of the gate, whatever its inputs hold.
C19_Validation ==
  (/\ last.op \in {"nand_connect_nand", "nand_connect_signal"}
   /\ (\/ last.a = NULL
       \/ last.b = NULL
       \/ last.k >= pre[last.b].input_count)) =>
    /\ last.ret = -1
    /\ errno = EINVAL
    /\ nand = pre

\* C19 witness: nand_connect_nand was called with a k out of range on a
\* gate an input of which already points to g_out.
C19_Witness ==
  /\ last.op = "nand_connect_nand"
  /\ last.a # NULL
  /\ last.b # NULL
  /\ last.k >= pre[last.b].input_count
  /\ \E j \in DOMAIN pre[last.b].inputs : Feeds(pre, last.a, last.b, j)
  /\ last.ret = -1

\* The gate pointers the last call was given.
UsedHandles ==
  CASE last.op = "nand_connect_nand"     -> {last.a, last.b}
    [] last.op = "nand_connect_signal"   -> {last.b}
    [] last.op = "nand_disconnect_input" -> {last.a}
    [] last.op = "nand_fan_out"          -> {last.a}
    [] last.op = "nand_evaluate"         -> Range(last.req)
    [] OTHER                             -> {}

\* C20 as claimed: a call given a pointer the caller has deleted returns -1
\* with errno EINVAL and leaves the heap as it was.
C20_Original ==
  UsedHandles \cap stale # {} =>
    /\ last.ret = -1
    /\ errno = EINVAL
    /\ nand = pre

\* C20 amended: a call given a NULL gate pointer returns -1 with errno EINVAL
\* and leaves the heap as it was.  A pointer the caller has deleted is not
\* told from a valid one: where malloc has put a new gate at that address
\* the call acts on that gate (nand_fan_out returns its fan-out,
\* nand_connect_signal rewires its input and returns 0), and where it has
\* not, nand_fan_out returns what the freed record holds.
C20_StaleUndetected ==
  /\ (last.op \in {"nand_connect_nand", "nand_connect_signal",
                   "nand_fan_out", "nand_evaluate"}
        /\ NULL \in UsedHandles) =>
       (last.ret = -1 /\ errno = EINVAL /\ nand = pre)
  /\ (last.op = "nand_fan_out" /\ last.a \in stale) =>
       /\ nand = pre
       /\ IF last.a \in DOMAIN pre
          THEN last.ret = nand_fan_out(pre, last.a)
          ELSE last.ret \in Garbage
  /\ (/\ last.op = "nand_connect_signal"
      /\ last.b \in stale
      /\ last.a # NULL
      /\ last.k < pre[last.b].input_count) =>
       /\ last.ret = 0
       /\ nand_input(nand, last.b, last.k) = last.a

\* C20 witness: a gate was deleted, malloc gave its address to a new gate
\* and nand_connect_signal, called with the deleted pointer, rewired the
\* new gate.
C20_Witness ==
  /\ last.op = "nand_connect_signal"
  /\ last.b \in stale
  /\ last.ret = 0
  /\ nand # pre

\* The last call was a successful nand_connect_nand or nand_connect_signal
\* on an input that pointed to a gate other than the new source.
Replaced ==
  /\ last.op \in {"nand_connect_nand", "nand_connect_signal"}
  /\ last.ret = 0
  /\ pre[last.b].inputs[last.k].type = NAND_GATE_INPUT
  /\ pre[last.b].inputs[last.k].ptr # last.a

\* C21: when nand_connect_nand or nand_connect_signal succeeds on input k of
\* T, which pointed to a gate S1 other than the new source, S1 has one
\* output less and no record (T, k), and input k holds the new source and
\* nothing else.
C21_OneSource ==
  Replaced =>
    LET S1 == pre[last.b].inputs[last.k].ptr IN
    /\ nand_fan_out(nand, S1) = nand_fan_out(pre, S1) - 1
    /\ out_info(last.b, last.k) \notin Range(nand[S1].outputs)
    /\ nand[last.b].inputs[last.k].ptr = last.a
    /\ nand[last.b].inputs[last.k].type =
         (IF last.op = "nand_connect_nand"
          THEN NAND_GATE_INPUT ELSE BOOLEAN_SIGNAL_INPUT)
    /\ nand_input(nand, last.b, last.k) = last.a

\* C21 witness: nand_connect_nand replaced a gate that fed both inputs of T.
C21_Witness ==
  /\ Replaced
  /\ last.op = "nand_connect_nand"
  /\ nand_fan_out(pre, pre[last.b].inputs[last.k].ptr) = 2
  /\ nand_fan_out(nand, pre[last.b].inputs[last.k].ptr) = 1

\* C22: in every state the number of outputs of a gate S is the number of
\* inputs that point to S; output record i of S names a gate T and an input
\* k of T that points to S with index i; no record occurs twice in a list.
C22_FanOutCounts ==
  \A S \in DOMAIN nand :
    /\ nand_fan_out(nand, S) =
         Cardinality({sl \in Slots(nand) : Feeds(nand, S, sl[1], sl[2])})
    /\ \A i \in 0..(nand_fan_out(nand, S) - 1) :
         LET rec == darray_get(nand[S].outputs, i) IN
         /\ rec.gate \in DOMAIN nand
         /\ rec.ind < nand[rec.gate].input_count
         /\ nand[rec.gate].inputs[rec.ind] = in_info(S, NAND_GATE_INPUT, i)
         /\ \A j \in 0..(nand_fan_out(nand, S) - 1) :
              darray_get(nand[S].outputs, j) = rec => j = i

\* C22 witness: nand_connect_nand gave a gate a second output record naming
\* the same gate as the first, with another input.
C22_Witness ==
  /\ ConnectCall
  /\ last.ret = 0
  /\ nand_fan_out(pre, last.a) = 1
  /\ nand_fan_out(nand, last.a) = 2
  /\ nand[last.a].outputs[1].gate = nand[last.a].outputs[2].gate
  /\ nand[last.a].outputs[1].ind # nand[last.a].outputs[2].ind

\* The last call disconnected an input that pointed to a gate.
DisconnectedGate ==
  /\ last.op = "nand_disconnect_input"
  /\ pre[last.a].inputs[last.k].type = NAND_GATE_INPUT

\* C23: nand_disconnect_input on input k of T, which points to S with index
\* i, removes the record (T, k) from the outputs of S and no other: the
\* list is one shorter and holds the other records; the only other input
\* whose index changes is that of the record moved from the end to i; no
\* other gate's inputs or outputs change.
C23_RemovesOneRecord ==
  DisconnectedGate =>
    LET T     == last.a
        k     == last.k
        S     == pre[T].inputs[k].ptr
        i     == pre[T].inputs[k].ind
        sz    == darray_size(pre[S].outputs)
        moved == darray_back(pre[S].outputs)
    IN
    /\ DOMAIN nand = DOMAIN pre
    /\ darray_size(nand[S].outputs) = sz - 1
    /\ Range(nand[S].outputs) = Range(pre[S].outputs) \ {out_info(T, k)}
    /\ \A g \in DOMAIN nand \ {S} : nand[g].outputs = pre[g].outputs
    /\ \A sl \in Slots(pre) \ {<<T, k>>} :
         nand[sl[1]].inputs[sl[2]] =
           IF i + 1 # sz /\ sl = <<moved.gate, moved.ind>>
           THEN [pre[sl[1]].inputs[sl[2]] EXCEPT !.ind = i]
           ELSE pre[sl[1]].inputs[sl[2]]

\* C23 witness: the record removed was not the last of the list, so that
\* another record was moved into its place.
C23_Witness ==
  /\ DisconnectedGate
  /\ LET S == pre[last.a].inputs[last.k].ptr IN
       /\ pre[last.a].inputs[last.k].ind + 1 < darray_size(pre[S].outputs)
       /\ darray_size(nand[S].outputs) = darray_size(pre[S].outputs) - 1

\* The gates in the order evaluate_sorted pops them from the stack that
\* topo_sort leaves when nand_evaluate_all is called on g and finds memory.
EvalOrder(N, g) ==
  LET s == topo_sort(stack_new(DfsState(N, ENONE), 0), g, 0).topo_order
  IN  [i \in 1..Len(s) |-> s[Len(s) + 1 - i]]

\* C24: on a successful nand_evaluate the order of evaluation holds every
\* gate of the closure of g once and no other gate, and every gate comes
\* after the gates its inputs point to; so it is when g repeats a gate or
\* names a gate that feeds another gate of g.
C24_EvaluationOrder ==
  (EvalCall /\ last.ret >= 0) =>
    LET order == EvalOrder(pre, last.req) IN
    /\ Range(order) = Requested
    /\ Len(order) = Cardinality(Requested)
    /\ \A i, j \in 1..Len(order) :
         order[j] \in Sources(pre, order[i]) => j < i
    /\ nand = evaluate_sorted(pre, [i \in 1..Len(order) |->
                                      order[Len(order) + 1 - i]], sigval)

\* C24 witness: g names a gate and then a gate that feeds it, and the
\* feeding gate was evaluated first.
C24_Witness ==
  /\ EvalCall
  /\ last.ret >= 0
  /\ Len(last.req) = 2
  /\ last.req[2] \in Sources(pre, last.req[1])
  /\ EvalOrder(pre, last.req) = <<last.req[2], last.req[1]>>

\* The state of the call when the loop of topo_sort ends, before
\* clear_gates, allocation number fail finding no memory.
LoopEnd(N, g, fail) ==
  LET d0 == stack_new(DfsState(N, ENONE), fail)
      d1 == IF d0.ret # 0 THEN d0 ELSE stack_new(d0, fail)
      d2 == IF d1.ret # 0 THEN d1 ELSE stack_new(d1, fail)
  IN  IF d2.ret # 0 THEN d2 ELSE TopoLoop(d2, g, 1, fail)

\* Three allocations for the stacks and, for each gate of S, a push onto
\* all_gates, one onto topo_order and one onto stack for its first frame
\* and for each of its inputs.
RECURSIVE StepBound(_, _)
StepBound(N, S) ==
  IF S = {} THEN 3
  ELSE LET g == CHOOSE x \in S : TRUE
       IN  3 + N[g].input_count + StepBound(N, S \ {g})

\* C25: the loop of topo_sort ends on every network, with cycles, gates
\* feeding themselves and empty inputs: it ends with an empty stack or with
\* a failure, after at most StepBound pushes (every step of the loop makes
\* one), and no gate has been pushed onto all_gates twice.
C25_Terminates ==
  EvalCall =>
    LET d == LoopEnd(pre, last.req, last.fail) IN
    /\ d.ret = -1 \/ Len(d.stack) = 0
    /\ d.ret = -1 <=> last.ret = -1
    /\ d.cnt <= StepBound(pre, Requested)
    /\ Range(d.all_gates) \subseteq Requested
    /\ \A i, j \in 1..Len(d.all_gates) :
         d.all_gates[i] = d.all_gates[j] => i = j

\* C25 witness: the call went through a gate that feeds itself and a gate
\* with an empty input, and failed with frames left on the stack.
C25_Witness ==
  /\ EvalCall
  /\ last.mem
  /\ last.ret = -1
  /\ \E g \in Requested : g \in Sources(pre, g)
  /\ HasEmpty(pre, Requested)
  /\ Len(LoopEnd(pre, last.req, 0).stack) > 0
  /\ Len(LoopEnd(pre, last.req, 0).all_gates) = 2

\* Every input of g points to a bool.
OnlySignals(N, g) ==
  \A k \in DOMAIN N[g].inputs : N[g].inputs[k].type = BOOLEAN_SIGNAL_INPUT

\* C26: an input that points to a bool contributes the value the bool has
\* when nand_evaluate is called: a successful call that follows another
\* nand_evaluate of the same gates returns, for each gate, the NAND of what
\* its inputs contribute with the values the bools have at this call, which
\* for a gate with bools only is the NAND of those values, whatever they
\* were at the call before or at nand_connect_signal.
C26_ValueAtCall ==
  (last.op = "nand_evaluate" /\ prev.call.op = "nand_evaluate"
     /\ last.ret >= 0) =>
    \A i \in 1..Len(last.req) :
      LET g == last.req[i] IN
      /\ last.out[i] = ~(\A k \in DOMAIN nand[g].inputs : SlotValue(nand, g, k))
      /\ OnlySignals(nand, g) =>
           last.out[i] =
             ~(\A k \in DOMAIN nand[g].inputs : sigval[nand[g].inputs[k].ptr])

\* C26 witness: a bool changed between two successful calls on the same
\* gate, and the signal returned changed with it.
C26_Witness ==
  /\ last.op = "nand_evaluate"
  /\ prev.call.op = "nand_evaluate"
  /\ prev.call.req = last.req
  /\ prev.call.ret >= 0
  /\ last.ret >= 0
  /\ \E i \in 1..Len(last.req) :
       /\ OnlySignals(nand, last.req[i])
       /\ nand[last.req[i]].input_count > 0
       /\ \E k \in DOMAIN nand[last.req[i]].inputs :
            prev.sigval[nand[last.req[i]].inputs[k].ptr]
              # sigval[nand[last.req[i]].inputs[k].ptr]
       /\ last.out[i] # prev.call.out[i]

\* C27 as claimed: nand_output(g, k) on a gate g returns NULL with errno
\* EINVAL for every k that is negative or not below the fan-out of g, and
\* the gate of output record k for every other k.
C27_Original ==
  (last.op = "nand_output" /\ last.a # NULL) =>
    IF 0 <= last.k /\ last.k < nand_fan_out(pre, last.a)
    THEN last.ret = darray_get(pre[last.a].outputs, last.k).gate
    ELSE last.ret = NULL /\ errno = EINVAL

\* C28: the value a successful nand_evaluate returns, the longest critical
\* path of the gates of g, is the longest critical path of the gates of the
\* closure of g: the critical path of a gate is longer than that of each
\* gate feeding it.
C28_MaxOverClosure ==
  (EvalCall /\ last.ret >= 0) =>
    /\ last.ret = Max({nand[g].crit_path_len : g \in Requested})
    /\ last.ret = Max({nand[g].crit_path_len : g \in Range(last.req)})
    /\ \A g \in Requested : \A h \in Sources(nand, g) :
         nand[g].crit_path_len > nand[h].crit_path_len

\* C28 witness: the closure holds a gate that g does not name, which feeds
\* the gate g names and has a critical path of its own.
C28_Witness ==
  /\ EvalCall
  /\ last.ret = 2
  /\ Len(last.req) = 1
  /\ \E h \in Requested \ Range(last.req) :
       /\ h \in Sources(nand, last.req[1])
       /\ nand[h].crit_path_len = 1

====
